---- MODULE Spec2Model ----
(***************************************************************************)
(* Personal Carbon Calculator (src/app.py).                                *)
(*                                                                         *)
(* The program is a Streamlit script: every widget interaction re-runs the *)
(* whole script top to bottom (calculator tab, what-if tab, download tab). *)
(* The state is the widget values plus the values the last run bound.      *)
(*                                                                         *)
(* Units.  The script works in floating point; every quantity it handles   *)
(* is an exact multiple of a small unit, so the model uses integers:       *)
(*   *_kg values and emission factors   grams        (0.170 kg  -> 170)    *)
(*   tonnes values rounded to 3 places  thousandths  (0.612 t   -> 612)    *)
(*   weekly_waste_kg                    half kilograms (4.0 kg  -> 8)      *)
(*   car_occupancy, alt_occupancy       halves       (1.0       -> 2)      *)
(*   daily_commute_km, monthly_kwh      km, kWh (whole by the slider step) *)
(***************************************************************************)
EXTENDS Integers, FiniteSets, Sequences, TLC

\* ---------------------------------------------------------------- bounds
\* The product of the sliders' full ranges is too large to enumerate.  A
\* session of the calculator tab explores the low end of each range (and
\* the maxima of the two integer sliders), the distance and the waste weight
\* in steps that meet exact halves of a thousandth; the sessions that study
\* one category use the full range of the slider they are about.
MaxKmIdx == 1
MaxDayIdx == 1
MaxKwhIdx == 1
MaxWasteIdx == 1
MaxWasteStudy == 10
MaxSeg == 1
MaxOccupancy == 3
MaxCutIdx == 1
MaxExtraIdx == 1

\* ------------------------------------------------------------- constants
TRANSPORT_EF_PAXKM == [car |-> 170, bus |-> 97, rail |-> 8]

ELECTRICITY_EF == [India |-> 716]

DIET_DAILY ==
  [HighMeat |-> 7190, MediumMeat |-> 5630, LowMeat |-> 4670,
   FishBased |-> 3910, Vegetarian |-> 3810, Vegan |-> 2890]

WASTE_EF == [Landfill |-> 450, Incineration |-> 1100, Composting |-> 100]

country == "India"

Modes == {"car", "bus", "rail"}

DietTypes == DOMAIN DIET_DAILY

Treatments == DOMAIN WASTE_EF

\* ------------------------------------------------------- widget domains
\* What each widget can return (min, max and step of the widget).
DailyKmRange == 0..200

CommuteDaysRange == {d \in 0..365 : d % 5 = 0}

MonthlyKwhRange == {k \in 0..2000 : k % 10 = 0}

WeeklyWasteRange == 0..200

SegregationRange == 0..100

KwhCutRange == {c \in 0..100 : c % 5 = 0}

ExtraSegregationRange == {e \in 0..100 : e % 5 = 0}

\* The part of each range a bounded session explores.
DailyKmValues == {k \in DailyKmRange : k % 10 = 0 /\ k <= 10 * MaxKmIdx}

CommuteDaysValues == {d \in CommuteDaysRange : d <= 5 * MaxDayIdx \/ d = 365}

MonthlyKwhValues == {k \in MonthlyKwhRange : k <= 10 * MaxKwhIdx}

WeeklyWasteValues ==
  {w \in WeeklyWasteRange : w % 5 = 0 /\ w <= 5 * MaxWasteIdx}

WeeklyWasteStudyValues == {w \in WeeklyWasteRange : w <= MaxWasteStudy}

\* SegregationValues for a slider whose maximum lets 150 through.
SegregationValuesWide == {s \in 0..150 : s <= MaxSeg \/ s = 150}

SegregationValues == {s \in SegregationRange : s <= MaxSeg \/ s = 100}

OccupancyValues == 2..MaxOccupancy

KwhCutValues == {c \in KwhCutRange : c <= 5 * MaxCutIdx}

ExtraSegregationValues == {e \in ExtraSegregationRange : e <= 5 * MaxExtraIdx}

\* ----------------------------------------------------------------- state
VARIABLES
  mode, daily_commute_km, commute_days, car_occupancy, monthly_kwh,
  diet_type, weekly_waste_kg, waste_treatment, segregation,
  alt_mode, alt_occupancy, kwh_cut, diet_switch, extra_segregation,
  tie_up,
  transport_emissions_kg, electricity_emissions_kg, diet_emissions_kg,
  waste_emissions_kg, category_tonnes, total_tonnes, details,
  new_segregation, new_waste_kg, new_total_t, delta_t, saved,
  reduction_shown, export_payload

widgets ==
  <<mode, daily_commute_km, commute_days, car_occupancy, monthly_kwh,
    diet_type, weekly_waste_kg, waste_treatment, segregation,
    alt_mode, alt_occupancy, kwh_cut, diet_switch, extra_segregation>>

outputs ==
  <<transport_emissions_kg, electricity_emissions_kg, diet_emissions_kg,
    waste_emissions_kg, category_tonnes, total_tonnes, details,
    new_segregation, new_waste_kg, new_total_t, delta_t, saved,
    reduction_shown, export_payload>>

vars == <<widgets, tie_up, outputs>>

\* ----------------------------------------------------------- arithmetic
\* Round3 as a truncation to 3 decimals instead of a rounding.
Round3Truncate(g, tie) == g \div 1000

\* round(kg / 1000.0, 3): grams to thousandths of a tonne.  Away from an
\* exact half the float result is the nearest thousandth.  At an exact half
\* the binary representation error of the float operand decides the
\* direction, not the half-to-even rule; a session takes one direction, tie,
\* and both directions are explored.
Round3(g, tie) ==
  LET q == g \div 1000
      r == g % 1000
  IN  IF r > 500 THEN q + 1
      ELSE IF r < 500 THEN q
      ELSE IF tie THEN q + 1 ELSE q

Min(a, b) == IF a < b THEN a ELSE b

\* ----------------------------------------------------- calculator tab
\* TransportEmissionsKg with the car's emissions shared among its occupants.
TransportEmissionsKgPerVehicle(m, km, days, occ) ==
  LET pax_km == km * days
  IN  IF m = "car" /\ occ > 0
      THEN (pax_km * TRANSPORT_EF_PAXKM["car"] * 2) \div occ
      ELSE pax_km * TRANSPORT_EF_PAXKM[m]

TransportEmissionsKg(m, km, days, occ) ==
  LET annual_commute_km == km * days
      pax_km == annual_commute_km
  IN  IF m = "car" /\ occ > 0
      THEN pax_km * TRANSPORT_EF_PAXKM["car"]
      ELSE pax_km * TRANSPORT_EF_PAXKM[m]

\* ElectricityEmissionsKg with the grid factor taken per MWh.
ElectricityEmissionsKgPerMWh(kwh) ==
  LET annual_kwh == kwh * 12
  IN  (annual_kwh * ELECTRICITY_EF[country]) \div 1000

ElectricityEmissionsKg(kwh) ==
  LET annual_kwh == kwh * 12
  IN  annual_kwh * ELECTRICITY_EF[country]

DietEmissionsKg(d) == DIET_DAILY[d] * 365

\* WasteEmissionsKg without the segregation step.
WasteEmissionsKgNoSegregation(w, s, t) == (w * 100 * 52 * WASTE_EF[t]) \div 200

\* WasteEmissionsKg with the sign of the segregation share slipped.
WasteEmissionsKgSignSlip(w, s, t) ==
  (w * (100 + s) * 52 * WASTE_EF[t]) \div 200

\* weekly_waste_kg * (1 - segregation / 100.0) * 52.0 * WASTE_EF, with the
\* weekly weight in half kilograms: the divisor is 2 * 100.
WasteEmissionsKg(w, s, t) == (w * (100 - s) * 52 * WASTE_EF[t]) \div 200

CategoryTonnes(tkg, ekg, dkg, wkg, tie) ==
  [Transportation |-> Round3(tkg, tie),
   Electricity |-> Round3(ekg, tie),
   Diet |-> Round3(dkg, tie),
   Waste |-> Round3(wkg, tie)]

\* SumCategories leaving one category out.
SumCategoriesSkipDiet(ct) == ct.Transportation + ct.Electricity + ct.Waste

\* sum(category_tonnes.values()); round(., 3) of it is exact on thousandths.
SumCategories(ct) ==
  ct.Transportation + ct.Electricity + ct.Diet + ct.Waste

\* The environment the calculator tab leaves behind: the widget values it
\* read and the names it bound.
Calculator(w, tie) ==
  LET tkg == TransportEmissionsKg(w.mode, w.daily_commute_km,
                                  w.commute_days, w.car_occupancy)
      ekg == ElectricityEmissionsKg(w.monthly_kwh)
      dkg == DietEmissionsKg(w.diet_type)
      wkg == WasteEmissionsKg(w.weekly_waste_kg, w.segregation,
                              w.waste_treatment)
      ct == CategoryTonnes(tkg, ekg, dkg, wkg, tie)
  IN  [mode |-> w.mode, daily_commute_km |-> w.daily_commute_km,
       commute_days |-> w.commute_days, car_occupancy |-> w.car_occupancy,
       monthly_kwh |-> w.monthly_kwh, diet_type |-> w.diet_type,
       weekly_waste_kg |-> w.weekly_waste_kg,
       waste_treatment |-> w.waste_treatment,
       segregation |-> w.segregation,
       transport_emissions_kg |-> tkg, electricity_emissions_kg |-> ekg,
       diet_emissions_kg |-> dkg, waste_emissions_kg |-> wkg,
       category_tonnes |-> ct, total_tonnes |-> SumCategories(ct)]

\* st.json in the "See calculation details" expander; 0 stands for the
\* None shown as car occupancy outside car mode.
Details(env) ==
  [Inputs |->
     [commute_mode |-> env.mode,
      daily_commute_km |-> env.daily_commute_km,
      commute_days |-> env.commute_days,
      car_occupancy |-> IF env.mode = "car" THEN env.car_occupancy ELSE 0,
      monthly_kwh |-> env.monthly_kwh,
      diet_type |-> env.diet_type,
      weekly_waste_kg |-> env.weekly_waste_kg,
      segregation_percent |-> env.segregation,
      waste_treatment |-> env.waste_treatment],
   Results |-> env.category_tonnes,
   Total |-> env.total_tonnes]

\* -------------------------------------------------------- what-if tab
\* NewSegregation without the cap.
NewSegregationUncapped(seg, extra) == seg + extra

NewSegregation(seg, extra) == Min(100, seg + extra)

NewTransKg(env, am, aocc) ==
  LET new_transport_ef == TRANSPORT_EF_PAXKM[am]
      new_paxkm == env.daily_commute_km * env.commute_days
  IN  new_paxkm * new_transport_ef

NewElecKg(env, cut) ==
  (env.monthly_kwh * (100 - cut) * 12 * ELECTRICITY_EF[country]) \div 100

NewDietKg(ds) == DIET_DAILY[ds] * 365

NewWasteKg(env, nseg) ==
  (env.weekly_waste_kg * (100 - nseg) * 52 * WASTE_EF[env.waste_treatment])
    \div 200

NewTotalT(env, am, aocc, cut, ds, nseg, tie) ==
  Round3(NewTransKg(env, am, aocc) + NewElecKg(env, cut) + NewDietKg(ds)
           + NewWasteKg(env, nseg), tie)

\* round(new_total_t - sum(...), 3): exact on thousandths.
DeltaT(env, ntot) == ntot - SumCategories(env.category_tonnes)

\* WhatIf re-using the baseline's name for the alternate's segregation.
WhatIfRebinding(env, am, aocc, cut, ds, extra, tie) ==
  LET nseg == Min(100, env.segregation + extra)
      ntot == NewTotalT(env, am, aocc, cut, ds, nseg, tie)
      dt == DeltaT(env, ntot)
      sv == 0 - dt
  IN  [env |-> [env EXCEPT !.segregation = nseg], new_segregation |-> nseg,
       new_waste_kg |-> NewWasteKg(env, nseg), new_total_t |-> ntot,
       delta_t |-> dt, saved |-> sv,
       reduction_shown |-> IF sv > 0 THEN sv ELSE 0]

\* The what-if tab binds new names only; env is the environment it leaves
\* for the download tab.
WhatIf(env, am, aocc, cut, ds, extra, tie) ==
  LET nseg == NewSegregation(env.segregation, extra)
      ntot == NewTotalT(env, am, aocc, cut, ds, nseg, tie)
      dt == DeltaT(env, ntot)
      sv == 0 - dt
  IN  [env |-> env, new_segregation |-> nseg,
       new_waste_kg |-> NewWasteKg(env, nseg), new_total_t |-> ntot,
       delta_t |-> dt, saved |-> sv,
       reduction_shown |-> IF sv > 0 THEN sv ELSE 0]

\* ------------------------------------------------------- download tab
ExportPayload(env) ==
  [country |-> country,
   inputs |->
     [mode |-> env.mode, daily_km |-> env.daily_commute_km,
      days |-> env.commute_days,
      electricity_monthly_kwh |-> env.monthly_kwh,
      diet_type |-> env.diet_type,
      waste_weekly_kg |-> env.weekly_waste_kg,
      waste_treatment |-> env.waste_treatment,
      segregation_percent |-> env.segregation],
   results_tCO2e |-> env.category_tonnes,
   Total |-> SumCategories(env.category_tonnes)]

\* ------------------------------------------------------ one script run
WidgetRecord(m, km, days, occ, kwh, d, w, t, s) ==
  [mode |-> m, daily_commute_km |-> km, commute_days |-> days,
   car_occupancy |-> occ, monthly_kwh |-> kwh, diet_type |-> d,
   weekly_waste_kg |-> w, waste_treatment |-> t, segregation |-> s]

\* The values a run binds, as a function of the widget values it reads.
Run(w, am, aocc, cut, ds, extra, tie) ==
  LET env1 == Calculator(w, tie)
      wi == WhatIf(env1, am, aocc, cut, ds, extra, tie)
  IN  [calc |-> env1, details |-> Details(env1), whatif |-> wi,
       export_payload |-> ExportPayload(wi.env)]

FirstRun(r) ==
  /\ transport_emissions_kg = r.calc.transport_emissions_kg
  /\ electricity_emissions_kg = r.calc.electricity_emissions_kg
  /\ diet_emissions_kg = r.calc.diet_emissions_kg
  /\ waste_emissions_kg = r.calc.waste_emissions_kg
  /\ category_tonnes = r.calc.category_tonnes
  /\ total_tonnes = r.calc.total_tonnes
  /\ details = r.details
  /\ new_segregation = r.whatif.new_segregation
  /\ new_waste_kg = r.whatif.new_waste_kg
  /\ new_total_t = r.whatif.new_total_t
  /\ delta_t = r.whatif.delta_t
  /\ saved = r.whatif.saved
  /\ reduction_shown = r.whatif.reduction_shown
  /\ export_payload = r.export_payload

\* The script re-run that follows a widget change.
Rerun ==
  \E r \in {Run(WidgetRecord(mode', daily_commute_km', commute_days',
                             car_occupancy', monthly_kwh', diet_type',
                             weekly_waste_kg', waste_treatment',
                             segregation'),
                alt_mode', alt_occupancy', kwh_cut', diet_switch',
                extra_segregation', tie_up')} :
    /\ transport_emissions_kg' = r.calc.transport_emissions_kg
    /\ electricity_emissions_kg' = r.calc.electricity_emissions_kg
    /\ diet_emissions_kg' = r.calc.diet_emissions_kg
    /\ waste_emissions_kg' = r.calc.waste_emissions_kg
    /\ category_tonnes' = r.calc.category_tonnes
    /\ total_tonnes' = r.calc.total_tonnes
    /\ details' = r.details
    /\ new_segregation' = r.whatif.new_segregation
    /\ new_waste_kg' = r.whatif.new_waste_kg
    /\ new_total_t' = r.whatif.new_total_t
    /\ delta_t' = r.whatif.delta_t
    /\ saved' = r.whatif.saved
    /\ reduction_shown' = r.whatif.reduction_shown
    /\ export_payload' = r.export_payload

\* First run of a session: every widget at its default.
Init ==
  /\ mode = "car"
  /\ daily_commute_km = 15
  /\ commute_days = 240
  /\ car_occupancy = 2
  /\ monthly_kwh = 250
  /\ diet_type = "MediumMeat"
  /\ weekly_waste_kg = 8
  /\ waste_treatment = "Landfill"
  /\ segregation = 20
  /\ alt_mode = "bus"
  /\ alt_occupancy = 4
  /\ kwh_cut = 20
  /\ diet_switch = "Vegan"
  /\ extra_segregation = 20
  /\ tie_up \in BOOLEAN
  /\ FirstRun(Run(WidgetRecord(mode, daily_commute_km, commute_days,
                           car_occupancy, monthly_kwh, diet_type,
                           weekly_waste_kg, waste_treatment, segregation),
              alt_mode, alt_occupancy, kwh_cut, diet_switch,
              extra_segregation, tie_up))

\* ----------------------------------------------------- widget actions
\* The user moves one widget to a value in D; Streamlit re-runs the script.
SetMode(D) ==
  \E v \in D :
    /\ v # mode
    /\ mode' = v
    \* the occupancy input exists only in car mode; elsewhere the script
    \* binds 1, and a widget that reappears starts from its default 1.0
    /\ car_occupancy' = 2
    /\ UNCHANGED <<daily_commute_km, commute_days, monthly_kwh, diet_type,
                   weekly_waste_kg, waste_treatment, segregation, alt_mode,
                   alt_occupancy, kwh_cut, diet_switch, extra_segregation,
                   tie_up>>
    /\ Rerun

SetDailyCommuteKm(D) ==
  \E v \in D :
    /\ v # daily_commute_km
    /\ daily_commute_km' = v
    /\ UNCHANGED <<mode, commute_days, car_occupancy, monthly_kwh, diet_type,
                   weekly_waste_kg, waste_treatment, segregation, alt_mode,
                   alt_occupancy, kwh_cut, diet_switch, extra_segregation,
                   tie_up>>
    /\ Rerun

SetCommuteDays(D) ==
  \E v \in D :
    /\ v # commute_days
    /\ commute_days' = v
    /\ UNCHANGED <<mode, daily_commute_km, car_occupancy, monthly_kwh,
                   diet_type, weekly_waste_kg, waste_treatment, segregation,
                   alt_mode, alt_occupancy, kwh_cut, diet_switch,
                   extra_segregation, tie_up>>
    /\ Rerun

SetCarOccupancy(D) ==
  \E v \in D :
    /\ mode = "car"
    /\ v # car_occupancy
    /\ car_occupancy' = v
    /\ UNCHANGED <<mode, daily_commute_km, commute_days, monthly_kwh,
                   diet_type, weekly_waste_kg, waste_treatment, segregation,
                   alt_mode, alt_occupancy, kwh_cut, diet_switch,
                   extra_segregation, tie_up>>
    /\ Rerun

SetMonthlyKwh(D) ==
  \E v \in D :
    /\ v # monthly_kwh
    /\ monthly_kwh' = v
    /\ UNCHANGED <<mode, daily_commute_km, commute_days, car_occupancy,
                   diet_type, weekly_waste_kg, waste_treatment, segregation,
                   alt_mode, alt_occupancy, kwh_cut, diet_switch,
                   extra_segregation, tie_up>>
    /\ Rerun

SetDietType(D) ==
  \E v \in D :
    /\ v # diet_type
    /\ diet_type' = v
    /\ UNCHANGED <<mode, daily_commute_km, commute_days, car_occupancy,
                   monthly_kwh, weekly_waste_kg, waste_treatment,
                   segregation, alt_mode, alt_occupancy, kwh_cut,
                   diet_switch, extra_segregation, tie_up>>
    /\ Rerun

SetWeeklyWasteKg(D) ==
  \E v \in D :
    /\ v # weekly_waste_kg
    /\ weekly_waste_kg' = v
    /\ UNCHANGED <<mode, daily_commute_km, commute_days, car_occupancy,
                   monthly_kwh, diet_type, waste_treatment, segregation,
                   alt_mode, alt_occupancy, kwh_cut, diet_switch,
                   extra_segregation, tie_up>>
    /\ Rerun

SetWasteTreatment(D) ==
  \E v \in D :
    /\ v # waste_treatment
    /\ waste_treatment' = v
    /\ UNCHANGED <<mode, daily_commute_km, commute_days, car_occupancy,
                   monthly_kwh, diet_type, weekly_waste_kg, segregation,
                   alt_mode, alt_occupancy, kwh_cut, diet_switch,
                   extra_segregation, tie_up>>
    /\ Rerun

SetSegregation(D) ==
  \E v \in D :
    /\ v # segregation
    /\ segregation' = v
    /\ UNCHANGED <<mode, daily_commute_km, commute_days, car_occupancy,
                   monthly_kwh, diet_type, weekly_waste_kg, waste_treatment,
                   alt_mode, alt_occupancy, kwh_cut, diet_switch,
                   extra_segregation, tie_up>>
    /\ Rerun

SetAltMode(D) ==
  \E v \in D :
    /\ v # alt_mode
    /\ alt_mode' = v
    /\ UNCHANGED <<mode, daily_commute_km, commute_days, car_occupancy,
                   monthly_kwh, diet_type, weekly_waste_kg, waste_treatment,
                   segregation, alt_occupancy, kwh_cut, diet_switch,
                   extra_segregation, tie_up>>
    /\ Rerun

SetAltOccupancy(D) ==
  \E v \in D :
    /\ v # alt_occupancy
    /\ alt_occupancy' = v
    /\ UNCHANGED <<mode, daily_commute_km, commute_days, car_occupancy,
                   monthly_kwh, diet_type, weekly_waste_kg, waste_treatment,
                   segregation, alt_mode, kwh_cut, diet_switch,
                   extra_segregation, tie_up>>
    /\ Rerun

SetKwhCut(D) ==
  \E v \in D :
    /\ v # kwh_cut
    /\ kwh_cut' = v
    /\ UNCHANGED <<mode, daily_commute_km, commute_days, car_occupancy,
                   monthly_kwh, diet_type, weekly_waste_kg, waste_treatment,
                   segregation, alt_mode, alt_occupancy, diet_switch,
                   extra_segregation, tie_up>>
    /\ Rerun

SetDietSwitch(D) ==
  \E v \in D :
    /\ v # diet_switch
    /\ diet_switch' = v
    /\ UNCHANGED <<mode, daily_commute_km, commute_days, car_occupancy,
                   monthly_kwh, diet_type, weekly_waste_kg, waste_treatment,
                   segregation, alt_mode, alt_occupancy, kwh_cut,
                   extra_segregation, tie_up>>
    /\ Rerun

SetExtraSegregation(D) ==
  \E v \in D :
    /\ v # extra_segregation
    /\ extra_segregation' = v
    /\ UNCHANGED <<mode, daily_commute_km, commute_days, car_occupancy,
                   monthly_kwh, diet_type, weekly_waste_kg, waste_treatment,
                   segregation, alt_mode, alt_occupancy, kwh_cut,
                   diet_switch, tie_up>>
    /\ Rerun

\* A session on the calculator tab: the what-if widgets keep their defaults.
Next ==
  \/ SetMode(Modes)
  \/ SetDailyCommuteKm(DailyKmValues)
  \/ SetCommuteDays(CommuteDaysValues)
  \/ SetCarOccupancy(OccupancyValues)
  \/ SetMonthlyKwh(MonthlyKwhValues)
  \/ SetDietType(DietTypes)
  \/ SetWeeklyWasteKg(WeeklyWasteValues)
  \/ SetWasteTreatment(Treatments)
  \/ SetSegregation(SegregationValues)

Spec == Init /\ [][Next]_vars

\* A session that only moves the electricity slider, over its full range.
NextElectricity == SetMonthlyKwh(MonthlyKwhRange)

SpecElectricity == Init /\ [][NextElectricity]_vars

\* A session on the waste inputs, the segregation slider over its full range.
NextWaste ==
  \/ SetWeeklyWasteKg(WeeklyWasteStudyValues)
  \/ SetWasteTreatment(Treatments)
  \/ SetSegregation(SegregationRange)

SpecWaste == Init /\ [][NextWaste]_vars

\* A session on the two segregation sliders, both over their full range.
NextCap ==
  \/ SetSegregation(SegregationRange)
  \/ SetExtraSegregation(ExtraSegregationRange)
  \/ SetWeeklyWasteKg(WeeklyWasteValues)

SpecCap == Init /\ [][NextCap]_vars

\* A session on the what-if tab, with the baseline's diet, segregation and
\* car occupancy also changing.
NextWhatIf ==
  \/ SetAltMode(Modes)
  \/ SetAltOccupancy(OccupancyValues)
  \/ SetKwhCut(KwhCutValues)
  \/ SetDietSwitch(DietTypes)
  \/ SetExtraSegregation(ExtraSegregationValues)
  \/ SetDietType(DietTypes)
  \/ SetSegregation(SegregationValues)
  \/ SetCarOccupancy(OccupancyValues)

SpecWhatIf == Init /\ [][NextWhatIf]_vars

\* ------------------------------------------------------------ properties
RawSumKg ==
  transport_emissions_kg + electricity_emissions_kg + diet_emissions_kg
    + waste_emissions_kg

\* total_tonnes against the unrounded sum, in grams.
RoundingError == total_tonnes * 1000 - RawSumKg

Abs(x) == IF x < 0 THEN 0 - x ELSE x

\* C1: the reported total is the sum of the four rounded category values and
\* differs from the sum of the four unrounded values by at most 0.002 t.
C1_RoundingBound ==
  /\ total_tonnes = category_tonnes.Transportation
                      + category_tonnes.Electricity + category_tonnes.Diet
                      + category_tonnes.Waste
  /\ Abs(RoundingError) <= 2000

\* Roundings accumulate beyond what one rounding can do, one of them at an
\* exact half.
C1_Witness ==
  /\ Abs(RoundingError) > 1000
  /\ \/ transport_emissions_kg % 1000 = 500
     \/ waste_emissions_kg % 1000 = 500

DefaultInputs ==
  /\ mode = "car"
  /\ daily_commute_km = 15
  /\ commute_days = 240
  /\ car_occupancy = 2
  /\ monthly_kwh = 250
  /\ diet_type = "MediumMeat"
  /\ weekly_waste_kg = 8
  /\ segregation = 20
  /\ waste_treatment = "Landfill"

\* C2 as stated: the concrete scenario yields 0.612, 2.148, 2.05 and 0.075 t
\* and a total within 0.002 of 4.885 t.
C2_AsStated ==
  DefaultInputs =>
    /\ category_tonnes =
         [Transportation |-> 612, Electricity |-> 2148, Diet |-> 2050,
          Waste |-> 75]
    /\ Abs(total_tonnes - 4885) <= 2

\* C2: the concrete scenario yields Transportation 0.612, Electricity 2.148,
\* Diet 2.055, Waste 0.075 and Total 4.890 t.
C2_ConcreteScenario ==
  DefaultInputs =>
    /\ category_tonnes =
         [Transportation |-> 612, Electricity |-> 2148, Diet |-> 2055,
          Waste |-> 75]
    /\ total_tonnes = 4890

C2_Witness == DefaultInputs /\ details.Inputs.daily_commute_km = 15

ZeroQuantities ==
  /\ daily_commute_km = 0
  /\ commute_days = 0
  /\ monthly_kwh = 0
  /\ weekly_waste_kg = 0

\* C4 as stated: with every quantity zero all four categories and the total
\* are 0.000.
C4_AsStated ==
  ZeroQuantities =>
    /\ category_tonnes =
         [Transportation |-> 0, Electricity |-> 0, Diet |-> 0, Waste |-> 0]
    /\ total_tonnes = 0

\* C4: with every quantity zero, Transportation, Electricity and Waste are
\* 0.000, Diet is the annual figure of the diet pattern and the total equals
\* Diet.
C4_ZeroInput ==
  LET annual == [HighMeat |-> 2624, MediumMeat |-> 2055, LowMeat |-> 1705,
                 FishBased |-> 1427, Vegetarian |-> 1391, Vegan |-> 1055]
  IN  ZeroQuantities =>
        /\ category_tonnes.Transportation = 0
        /\ category_tonnes.Electricity = 0
        /\ category_tonnes.Waste = 0
        /\ category_tonnes.Diet = annual[diet_type]
        /\ total_tonnes = category_tonnes.Diet

C4_Witness ==
  /\ ZeroQuantities
  /\ diet_type = "Vegan"
  /\ mode = "rail"
  /\ waste_treatment = "Incineration"

\* The alternate scenario's inputs run through the emissions model: each
\* category rounded, then summed.
AlternateTotal ==
  LET env == [daily_commute_km |-> daily_commute_km,
              commute_days |-> commute_days, monthly_kwh |-> monthly_kwh]
  IN  SumCategories(
        CategoryTonnes(NewTransKg(env, alt_mode, alt_occupancy),
                       NewElecKg(env, kwh_cut), NewDietKg(diet_switch),
                       new_waste_kg, tie_up))

NoChange ==
  /\ alt_mode = mode
  /\ kwh_cut = 0
  /\ diet_switch = diet_type
  /\ extra_segregation = 0

\* C5: delta is the alternate's total minus the baseline's, both the sum of
\* four rounded categories; the reduction is max(0, -delta); an alternate
\* that changes nothing has delta 0 and reduction 0.
C5_Delta ==
  /\ delta_t = AlternateTotal - total_tonnes
  /\ reduction_shown = (IF delta_t < 0 THEN 0 - delta_t ELSE 0)
  /\ NoChange => (delta_t = 0 /\ reduction_shown = 0)

\* C6: of two inputs that differ only in the monthly kWh, the one with more
\* kWh has the strictly larger Electricity value.
C6_ElectricityMonotone ==
  [][(monthly_kwh' > monthly_kwh)
       => (category_tonnes'.Electricity > category_tonnes.Electricity)]_vars

C6_Witness == monthly_kwh = 10 /\ category_tonnes.Electricity = 86

OnlySegregationRises ==
  /\ segregation' > segregation
  /\ UNCHANGED <<weekly_waste_kg, waste_treatment>>

\* C7 as stated: of two inputs that differ only in the segregation percent,
\* the one with more segregation has the strictly smaller Waste value.
C7_AsStated ==
  [][OnlySegregationRises
       => (category_tonnes'.Waste < category_tonnes.Waste)]_vars

\* C7: of two inputs that differ only in the segregation percent, the one
\* with more segregation has a Waste value that is not larger, and strictly
\* smaller unrounded waste emissions when the weekly weight is not zero.
C7_WasteMonotone ==
  [][OnlySegregationRises
       => /\ category_tonnes'.Waste <= category_tonnes.Waste
          /\ (weekly_waste_kg > 0
                => waste_emissions_kg' < waste_emissions_kg)]_vars

\* A weight that is not zero, and a Waste value the rounding keeps where it
\* was without segregation (0.0026 t and 0.002574 t both show as 0.003 t).
C7_Witness ==
  /\ weekly_waste_kg = 1
  /\ waste_treatment = "Composting"
  /\ segregation = 1
  /\ waste_emissions_kg = 2574
  /\ category_tonnes.Waste = 3

\* C8: the alternate's segregation is min(100, baseline + increment): 100
\* when the sum exceeds 100, always in 0..100, and the alternate's waste
\* emissions are never negative.
C8_SegregationCap ==
  /\ (segregation + extra_segregation > 100) => (new_segregation = 100)
  /\ (segregation + extra_segregation <= 100)
       => (new_segregation = segregation + extra_segregation)
  /\ new_segregation \in 0..100
  /\ new_waste_kg >= 0

C8_Witness ==
  /\ segregation + extra_segregation > 100
  /\ segregation < 100
  /\ extra_segregation < 100
  /\ weekly_waste_kg > 0
  /\ new_segregation = 100

\* C9: the what-if tab leaves the baseline alone: what the download tab
\* exports after it is what the calculator tab computed and showed before
\* it, and the inputs are the widget values.
C9_BaselineUnchanged ==
  /\ export_payload.results_tCO2e = details.Results
  /\ export_payload.results_tCO2e = category_tonnes
  /\ export_payload.Total = details.Total
  /\ export_payload.Total = total_tonnes
  /\ export_payload.inputs.mode = details.Inputs.commute_mode
  /\ export_payload.inputs.daily_km = details.Inputs.daily_commute_km
  /\ export_payload.inputs.days = details.Inputs.commute_days
  /\ export_payload.inputs.electricity_monthly_kwh = details.Inputs.monthly_kwh
  /\ export_payload.inputs.diet_type = details.Inputs.diet_type
  /\ export_payload.inputs.waste_weekly_kg = details.Inputs.weekly_waste_kg
  /\ export_payload.inputs.waste_treatment = details.Inputs.waste_treatment
  /\ export_payload.inputs.segregation_percent
       = details.Inputs.segregation_percent
  /\ export_payload.inputs.segregation_percent = segregation
  /\ export_payload.inputs.diet_type = diet_type
  /\ export_payload.inputs.mode = mode

\* A scenario moved off its defaults that differs from the baseline in every
\* dimension, the segregation at its cap.
C9_Witness ==
  /\ alt_mode = "rail"
  /\ kwh_cut = 5
  /\ diet_switch # diet_type
  /\ extra_segregation = 5
  /\ segregation = 100
  /\ new_segregation = 100
  /\ delta_t # 0

====
